---- MODULE Spec2Model ----
(***************************************************************************)
(* Model of the LDAP credential / password-lifecycle client                *)
(* (src/python/ldap_manager.py) and of the password complexity engine      *)
(* (src/python/password_manager.py).                                       *)
(*                                                                         *)
(* Characters are code points (integers), strings that the code inspects   *)
(* character by character are sequences of code points.  Messages are      *)
(* records [text, who, err, num]: the literal part of the f-string, the    *)
(* user name interpolated, the exception interpolated and the numbers or   *)
(* characters interpolated.                                                *)
(***************************************************************************)
EXTENDS Integers, Sequences, FiniteSets, TLC

(***************************************************************************)
(* Messages                                                                *)
(***************************************************************************)
Msg(text, who, err, num) == [text |-> text, who |-> who, err |-> err, num |-> num]

Verdict(passed, reason) == [passed |-> passed, reason |-> reason]

(***************************************************************************)
(* str methods, on the ASCII range                                         *)
(***************************************************************************)
IsLower(c) == c \in 97..122

IsUpper(c) == c \in 65..90

IsDigit(c) == c \in 48..57

IsAlnum(c) == IsLower(c) \/ IsUpper(c) \/ IsDigit(c)

ToLower(c) == IF IsUpper(c) THEN c + 32 ELSE c

Lower(s) == [i \in 1..Len(s) |-> ToLower(s[i])]

StrIsAlpha(s) == Len(s) > 0 /\ \A i \in 1..Len(s) : IsLower(s[i]) \/ IsUpper(s[i])

StrIsDigit(s) == Len(s) > 0 /\ \A i \in 1..Len(s) : IsDigit(s[i])

Reverse(s) == [i \in 1..Len(s) |-> s[Len(s) + 1 - i]]

\* Python's "sub in row" for str
IsSubstring(sub, row) ==
    \E k \in 0..(Len(row) - Len(sub)) : SubSeq(row, k + 1, k + Len(sub)) = sub

HasLower(password) == \E i \in 1..Len(password) : IsLower(password[i])

HasUpper(password) == \E i \in 1..Len(password) : IsUpper(password[i])

HasDigit(password) == \E i \in 1..Len(password) : IsDigit(password[i])

HasSpecial(password) == \E i \in 1..Len(password) : ~IsAlnum(password[i])

BoolToInt(b) == IF b THEN 1 ELSE 0

(***************************************************************************)
(* password_manager.py: defaults of the six rules                          *)
(***************************************************************************)
min_len == 12

max_len == 32

min_types == 3

seq_length == 3

max_repeats == 2

\* threshold 60.0, in hundredths (entropy is rounded to two decimals)
threshold == 6000

EmptyMsg == Msg("Password cannot be empty.", "", "", <<>>)

password_length_valid(password) ==
    IF Len(password) = 0 THEN Verdict(FALSE, EmptyMsg)
    ELSE IF Len(password) < min_len
    THEN Verdict(FALSE, Msg("Password is too short, must be at least {min_len} characters.",
                            "", "", <<min_len>>))
    ELSE IF Len(password) > max_len
    THEN Verdict(FALSE, Msg("Password is too long, must be at most {max_len} characters.",
                            "", "", <<max_len>>))
    ELSE Verdict(TRUE, Msg("Password length is valid.", "", "", <<>>))

types_found(password) ==
    BoolToInt(HasLower(password)) + BoolToInt(HasUpper(password))
        + BoolToInt(HasDigit(password)) + BoolToInt(HasSpecial(password))

password_has_min_types(password) ==
    IF Len(password) = 0 THEN Verdict(FALSE, EmptyMsg)
    ELSE IF types_found(password) >= min_types
    THEN Verdict(TRUE, Msg("Password contains sufficient character variety.", "", "", <<>>))
    ELSE Verdict(FALSE,
                 Msg("Password must contain at least {min_types} types of characters, found {types_found}.",
                     "", "", <<min_types, types_found(password)>>))

\* the window pw[i : i + length], i counted from 0 as in the code
Window(pw, i, length) == SubSeq(pw, i + 1, i + length)

is_seq(substr) == \A j \in 1..(Len(substr) - 1) : substr[j + 1] - substr[j] = 1

is_rev_seq(substr) == \A j \in 1..(Len(substr) - 1) : substr[j] - substr[j + 1] = 1

SeqHit(substr) == (StrIsAlpha(substr) \/ StrIsDigit(substr)) /\ (is_seq(substr) \/ is_rev_seq(substr))

\* the least element of a non-empty set of integers: the first iteration that returns
First(S) == CHOOSE i \in S : \A k \in S : i <= k

\* contains_sequential_chars without pw = password.lower()
contains_sequential_chars_case_sensitive(password) ==
    IF Len(password) < seq_length
    THEN Verdict(FALSE, Msg("Password too short to check for sequential characters.", "", "", <<>>))
    ELSE LET pw == password
             hits == {i \in 0..(Len(pw) - seq_length) : SeqHit(Window(pw, i, seq_length))}
         IN IF hits # {}
            THEN Verdict(FALSE, Msg("Sequential character pattern detected: {substr}", "", "",
                                    Window(pw, First(hits), seq_length)))
            ELSE Verdict(TRUE, Msg("No sequential character pattern detected.", "", "", <<>>))

contains_sequential_chars(password) ==
    IF Len(password) < seq_length
    THEN Verdict(FALSE, Msg("Password too short to check for sequential characters.", "", "", <<>>))
    ELSE LET pw == Lower(password)
             hits == {i \in 0..(Len(pw) - seq_length) : SeqHit(Window(pw, i, seq_length))}
         IN IF hits # {}
            THEN Verdict(FALSE, Msg("Sequential character pattern detected: {substr}", "", "",
                                    Window(pw, First(hits), seq_length)))
            ELSE Verdict(TRUE, Msg("No sequential character pattern detected.", "", "", <<>>))

\* "qwertyuiop", "asdfghjkl", "zxcvbnm"
keyboard_rows ==
    { <<113, 119, 101, 114, 116, 121, 117, 105, 111, 112>>,
      <<97, 115, 100, 102, 103, 104, 106, 107, 108>>,
      <<122, 120, 99, 118, 98, 110, 109>> }

KeyboardHit(substr) ==
    \E row \in keyboard_rows : IsSubstring(substr, row) \/ IsSubstring(Reverse(substr), row)

contains_sequential_keyboard(password) ==
    IF Len(password) < seq_length
    THEN Verdict(FALSE, Msg("Password too short to check for keyboard sequences.", "", "", <<>>))
    ELSE LET pw == Lower(password)
             hits == {i \in 0..(Len(pw) - seq_length) : KeyboardHit(Window(pw, i, seq_length))}
         IN IF hits # {}
            THEN Verdict(FALSE, Msg("Keyboard pattern detected: {substr}", "", "",
                                    Window(pw, First(hits), seq_length)))
            ELSE Verdict(TRUE, Msg("No keyboard pattern detected.", "", "", <<>>))

\* the value of count after the loop body ran for index i (1-based position i of password)
RECURSIVE RepeatCount(_, _)
RepeatCount(password, i) ==
    IF i <= 1 THEN 1
    ELSE IF password[i] = password[i - 1] THEN RepeatCount(password, i - 1) + 1
    ELSE 1

contains_repeated_chars(password) ==
    IF Len(password) = 0 THEN Verdict(FALSE, EmptyMsg)
    ELSE LET hits == {i \in 2..Len(password) : RepeatCount(password, i) > max_repeats}
         IN IF hits # {}
            THEN Verdict(FALSE,
                         Msg("Password contains more than {max_repeats} repeated characters: '{password[i] * count}'",
                             "", "",
                             <<max_repeats, password[First(hits)], RepeatCount(password, First(hits))>>))
            ELSE Verdict(TRUE, Msg("No excessive repeated characters detected.", "", "", <<>>))

charset_size(lower, upper, digit, special) ==
    (IF lower THEN 26 ELSE 0) + (IF upper THEN 26 ELSE 0)
        + (IF digit THEN 10 ELSE 0) + (IF special THEN 32 ELSE 0)

\* math.log2 of the charset sizes that can occur, in millionths (truncated)
Log2Micro(n) ==
    CASE n = 10 -> 3321928
      [] n = 26 -> 4700439
      [] n = 32 -> 5000000
      [] n = 36 -> 5169925
      [] n = 42 -> 5392317
      [] n = 52 -> 5700439
      [] n = 58 -> 5857980
      [] n = 62 -> 5954196
      [] n = 68 -> 6087462
      [] n = 84 -> 6392317
      [] n = 94 -> 6554588

\* round(len(password) * math.log2(charset_size), 2), in hundredths
entropy(password, size) == (Len(password) * Log2Micro(size) + 5000) \div 10000

calculate_entropy(password, lower, upper, digit, special) ==
    IF Len(password) = 0 THEN Verdict(FALSE, EmptyMsg)
    ELSE LET size == charset_size(lower, upper, digit, special)
         IN IF size = 0
            THEN Verdict(FALSE, Msg("No valid character set detected.", "", "", <<>>))
            ELSE IF entropy(password, size) >= threshold
            THEN Verdict(TRUE, Msg("Password entropy is {entropy}, which meets the requirement.",
                                   "", "", <<entropy(password, size)>>))
            ELSE Verdict(FALSE,
                         Msg("Password entropy is {entropy}, which is below the threshold of {threshold}.",
                             "", "", <<entropy(password, size), threshold>>))

\* complexity_checks with the first two rules in the other order
complexity_checks_reordered(password) ==
    << password_has_min_types(password),
       password_length_valid(password),
       contains_sequential_chars(password),
       contains_sequential_keyboard(password),
       contains_repeated_chars(password),
       calculate_entropy(password, HasLower(password), HasUpper(password),
                         HasDigit(password), HasSpecial(password)) >>

\* the list 'checks' of check_password_complexity_with_reason, built eagerly
complexity_checks(password) ==
    << password_length_valid(password),
       password_has_min_types(password),
       contains_sequential_chars(password),
       contains_sequential_keyboard(password),
       contains_repeated_chars(password),
       calculate_entropy(password, HasLower(password), HasUpper(password),
                         HasDigit(password), HasSpecial(password)) >>

check_password_complexity_with_reason(password) ==
    LET checks == complexity_checks(password)
        failing == {k \in 1..Len(checks) : ~checks[k].passed}
    IN IF failing # {}
       THEN Verdict(FALSE, checks[First(failing)].reason)
       ELSE Verdict(TRUE, Msg("Password is strong and meets all complexity requirements.", "", "", <<>>))

(***************************************************************************)
(* datetime: naive date-times are records of their civil fields; the       *)
(* arithmetic goes through the proleptic Gregorian ordinal as datetime's   *)
(* does.                                                                   *)
(***************************************************************************)
DT(Y, M, D, h, m, s) == [Y |-> Y, M |-> M, D |-> D, h |-> h, m |-> m, s |-> s]

NoDT == DT(0, 0, 0, 0, 0, 0)

is_leap(y) == y % 4 = 0 /\ (y % 100 # 0 \/ y % 400 = 0)

days_in_month(y, m) ==
    IF m = 2 THEN (IF is_leap(y) THEN 29 ELSE 28)
    ELSE IF m \in {4, 6, 9, 11} THEN 30 ELSE 31

days_before_year(y) == (y - 1) * 365 + (y - 1) \div 4 - (y - 1) \div 100 + (y - 1) \div 400

RECURSIVE days_before_month(_, _)
days_before_month(y, m) ==
    IF m <= 1 THEN 0 ELSE days_before_month(y, m - 1) + days_in_month(y, m - 1)

\* datetime.toordinal(): 1 for 0001-01-01
ymd2ord(y, m, d) == days_before_year(y) + days_before_month(y, m) + d

\* date.fromordinal()
ord2ymd(ordinal) ==
    LET n0   == ordinal - 1
        n400 == n0 \div 146097
        r400 == n0 % 146097
        n100 == r400 \div 36524
        r100 == r400 % 36524
        n4   == r100 \div 1461
        r4   == r100 % 1461
        n1   == r4 \div 365
        r1   == r4 % 365
        year == n400 * 400 + 1 + n100 * 100 + n4 * 4 + n1
    IN IF n1 = 4 \/ n100 = 4
       THEN [Y |-> year - 1, M |-> 12, D |-> 31]
       ELSE LET month == CHOOSE m \in 1..12 :
                             /\ days_before_month(year, m) <= r1
                             /\ r1 < days_before_month(year, m) + days_in_month(year, m)
            IN [Y |-> year, M |-> month, D |-> r1 - days_before_month(year, month) + 1]

seconds_of_day(dt) == dt.h * 3600 + dt.m * 60 + dt.s

\* dt + timedelta(seconds = secs)
AddSeconds(dt, secs) ==
    LET total == seconds_of_day(dt) + secs
        days  == ymd2ord(dt.Y, dt.M, dt.D) + total \div 86400
        rem   == total % 86400
        ymd   == ord2ymd(days)
    IN DT(ymd.Y, ymd.M, ymd.D, rem \div 3600, (rem % 3600) \div 60, rem % 60)

\* TimedeltaDays rounding the difference toward zero instead of down
TimedeltaDaysTruncating(a, b, b_us) ==
    LET days == ymd2ord(a.Y, a.M, a.D) - ymd2ord(b.Y, b.M, b.D)
        secs == seconds_of_day(a) - seconds_of_day(b)
    IN IF days > 0 /\ (secs < 0 \/ (secs = 0 /\ b_us > 0)) THEN days - 1
       ELSE IF days < 0 /\ secs > 0 THEN days + 1
       ELSE days

\* (a - b).days, b carrying microseconds: timedelta normalises microseconds into
\* seconds and seconds into days, both by floor division
TimedeltaDays(a, b, b_us) ==
    LET us   == 0 - b_us
        secs == seconds_of_day(a) - seconds_of_day(b) + us \div 1000000
    IN (ymd2ord(a.Y, a.M, a.D) - ymd2ord(b.Y, b.M, b.D)) + secs \div 86400

\* str.rstrip(chars) for one character
RECURSIVE RStrip(_, _)
RStrip(s, c) ==
    IF Len(s) > 0 /\ s[Len(s)] = c THEN RStrip(SubSeq(s, 1, Len(s) - 1), c) ELSE s

\* the number a string of decimal digits denotes
RECURSIVE DigitsValue(_)
DigitsValue(s) ==
    IF Len(s) = 0 THEN 0
    ELSE DigitsValue(SubSeq(s, 1, Len(s) - 1)) * 10 + (s[Len(s)] - 48)

\* datetime.strptime(s, "%Y%m%d%H%M%S") on strings that are not shorter than the
\* fourteen digits of the format: anything else than fourteen digits naming a real
\* date and time raises ValueError
strptime(s) ==
    IF Len(s) = 14 /\ StrIsDigit(s)
    THEN LET Y == DigitsValue(SubSeq(s, 1, 4))
             M == DigitsValue(SubSeq(s, 5, 6))
             D == DigitsValue(SubSeq(s, 7, 8))
             h == DigitsValue(SubSeq(s, 9, 10))
             m == DigitsValue(SubSeq(s, 11, 12))
             sec == DigitsValue(SubSeq(s, 13, 14))
         IN IF /\ Y >= 1
               /\ M \in 1..12
               /\ D >= 1
               /\ D <= days_in_month(Y, M)
               /\ h <= 23
               /\ m <= 59
               /\ sec <= 59
            THEN [ok |-> TRUE, dt |-> DT(Y, M, D, h, m, sec)]
            ELSE [ok |-> FALSE, dt |-> NoDT]
    ELSE [ok |-> FALSE, dt |-> NoDT]

\* int(b"...") on an attribute value of digits
ParseInt(s) ==
    IF StrIsDigit(s) THEN [ok |-> TRUE, n |-> DigitsValue(s)] ELSE [ok |-> FALSE, n |-> 0]

(***************************************************************************)
(* ldap_manager.py: values                                                 *)
(***************************************************************************)
NoMsg == Msg("", "", "", <<>>)

\* what a call returned or raised.  shape "tuple" is Tuple[bool, str] (ok, msg);
\* shape "dict" is a dict with the keys 'keys'; expiry_none is expiry_date = None
\* and days_inf is days_left = float("inf")
NoResult ==
    [kind |-> "none", exc |-> "", shape |-> "", ok |-> FALSE, msg |-> NoMsg, keys |-> {},
     expiry_date |-> NoDT, expiry_none |-> FALSE, days_left |-> 0, days_inf |-> FALSE,
     last_changed |-> NoDT]

ReturnTuple(ok, msg) ==
    [NoResult EXCEPT !.kind = "return", !.shape = "tuple", !.ok = ok, !.msg = msg]

ReturnMessage(msg) ==
    [NoResult EXCEPT !.kind = "return", !.shape = "dict", !.keys = {"message"}, !.msg = msg]

Raise(exc) == [NoResult EXCEPT !.kind = "raise", !.exc = exc]

\* one call on the LDAPObject (or ldap.initialize) and how it ended; base and
\* scope are the first two arguments of search_s
Ev(op, res) == [op |-> op, res |-> res, base |-> "", scope |-> ""]

EvSearch(base, scope, res) == [op |-> "search_s", res |-> res, base |-> base, scope |-> scope]

DN(attr, value, ou, base) == [attr |-> attr, value |-> value, ou |-> ou, base |-> base]

\* the exceptions of python-ldap the code names, and OTHER for every other
\* subclass of ldap.LDAPError (TIMEOUT, CONSTRAINT_VIOLATION, CONNECT_ERROR, ...)
LDAPErrors ==
    {"INVALID_CREDENTIALS", "UNWILLING_TO_PERFORM", "SERVER_DOWN",
     "INSUFFICIENT_ACCESS", "NO_SUCH_OBJECT", "OTHER"}

(***************************************************************************)
(* Inputs and the directory                                                *)
(***************************************************************************)
BaseDN == "dc=example,dc=com"

\* "Tr0ub4dor&3"
PwOld == <<84, 114, 48, 117, 98, 52, 100, 111, 114, 38, 51>>

\* "svc-Secret1"
PwSvc == <<115, 118, 99, 45, 83, 101, 99, 114, 101, 116, 49>>

\* "Xk7#mQ9$vL2@pR"
PwStrong == <<88, 107, 55, 35, 109, 81, 57, 36, 118, 76, 50, 64, 112, 82>>

\* "correcthorsebattery"
PwLowerOnly ==
    <<99, 111, 114, 114, 101, 99, 116, 104, 111, 114, 115, 101, 98, 97, 116, 116, 101, 114, 121>>

\* "Abcdef123456!"
PwSequential == <<65, 98, 99, 100, 101, 102, 49, 50, 51, 52, 53, 54, 33>>

\* "Zqwe7#mK9$vL2p"
PwKeyboard == <<90, 113, 119, 101, 55, 35, 109, 75, 57, 36, 118, 76, 50, 112>>

\* "Xk7#mmm9$vL2@pR"
PwRepeated == <<88, 107, 55, 35, 109, 109, 109, 57, 36, 118, 76, 50, 64, 112, 82>>

Usernames == {"admin", "xops", "alice", "bob", ""}

BindPasswords == {<<>>, PwOld, PwSvc, PwStrong}

\* old_password of change_password
OldPasswords == {<<>>, PwOld, PwStrong}

NewPasswords == {<<>>, PwOld, PwLowerOnly, PwSequential, PwKeyboard, PwRepeated, PwStrong}

QueryUsers == {"alice", "bob"}

\* admin_user: the default XOPS_USERNAME, another administrator, or a falsy value
AdminUsers == {"xops", "admin", ""}

AdminPasswords == {<<>>, PwSvc, PwOld}

\* the entries of the directory: cn=admin under the base, the service account,
\* and one person; "bob" has no entry
DirDNs ==
    { DN("cn", "admin", "", BaseDN),
      DN("uid", "xops", "service", BaseDN),
      DN("uid", "alice", "people", BaseDN) }

\* the entries a filter (uid=<name>) under the base matches
DirUids == {"xops", "alice"}

PolicyDefault == "cn=default,ou=policies,dc=example,dc=com"

PolicyGone == "cn=gone,ou=policies,dc=example,dc=com"

Attr(present, value) == [present |-> present, value |-> value]

\* pwdChangedTime values: "20230101000000Z", "20240229120000Z", "20221231235959Z",
\* and two that strptime rejects: "20230101000000.5Z" (a fraction), "20230230000000Z"
ChangedTimes ==
    { <<50, 48, 50, 51, 48, 49, 48, 49, 48, 48, 48, 48, 48, 48, 90>>,
      <<50, 48, 50, 52, 48, 50, 50, 57, 49, 50, 48, 48, 48, 48, 90>>,
      <<50, 48, 50, 50, 49, 50, 51, 49, 50, 51, 53, 57, 53, 57, 90>>,
      <<50, 48, 50, 51, 48, 49, 48, 49, 48, 48, 48, 48, 48, 48, 46, 53, 90>>,
      <<50, 48, 50, 51, 48, 50, 51, 48, 48, 48, 48, 48, 48, 48, 90>> }

\* the decimal digits of a natural number, as the directory stores an integer
RECURSIVE Digits(_)
Digits(n) == IF n < 10 THEN <<48 + n>> ELSE Append(Digits(n \div 10), 48 + (n % 10))

\* how many whole days the pwdMaxAge values drawn go up to
MaxAgeDays == 1

\* pwdMaxAge values: "0", "1", "86400", "86401", ... and the 90 days "7776000"
MaxAges ==
    {Digits(k * 86400 + r) : k \in 0..MaxAgeDays, r \in {0, 1}} \cup {Digits(7776000)}

\* datetime.now(timezone.utc): civil fields and microsecond
Nows ==
    { [dt |-> DT(2023, 4, 15, 0, 0, 0), us |-> 0],
      [dt |-> DT(2023, 4, 15, 0, 0, 0), us |-> 1],
      [dt |-> DT(2023, 3, 31, 23, 59, 59), us |-> 999999],
      [dt |-> DT(2023, 1, 1, 0, 0, 1), us |-> 0],
      [dt |-> DT(2022, 12, 1, 12, 0, 0), us |-> 500000] }

URI(scheme, rest) == [scheme |-> scheme, rest |-> rest]

\* candidate ldap_uri values; the second passes the constructor and is one that
\* libldap cannot parse (a port that is no number)
URIs ==
    { URI("ldaps://", "ldap.example.com:636"),
      URI("ldaps://", "ldap.example.com:port"),
      URI("ldap://", "ldap.example.com:389") }

ParsableRests == {"ldap.example.com:636", "ldap.example.com:389"}

(***************************************************************************)
(* State                                                                   *)
(***************************************************************************)
VARIABLES
    client,     \* the OpenLDAPClient: ldap_uri, base_dn, ca_cert_file
    opt,        \* the process-wide options of the ldap module (ldap.set_option)
    pc,         \* where the calling thread is
    call,       \* the public operation running (or the last one) and its arguments
    conn,       \* the LDAPObject of the call: "none", "open", "bound", "closed"
    trace,      \* what the call did to its connection, in order
    locals,     \* locals of get_password_expiry_info that outlive one exchange
    pending,    \* what the try statement is about to return or raise while finally runs
    result,     \* what the last call returned or raised
    dirPwd,     \* directory: the password of each entry
    dirEntry,   \* directory: pwdChangedTime and pwdPolicySubentry of alice's entry, as
                \* they are while get_password_expiry_info runs
    dirPolicy,  \* directory: pwdMaxAge of the policy entry PolicyDefault, likewise
    threads     \* concurrent callers inside _get_connection: where each is, and the
                \* TLS options its connection was created under

vars == <<client, opt, pc, call, conn, trace, locals, pending, result, dirPwd, dirEntry, dirPolicy,
          threads>>

NoCall ==
    [op |-> "", username |-> "", password |-> <<>>, new_password |-> <<>>,
     admin_user |-> "", admin_password |-> <<>>]

\* an entry without password-policy attributes
NoEntry == [changed |-> Attr(FALSE, <<>>), subentry |-> Attr(FALSE, "")]

\* the password-policy attributes the directory may hold for alice's entry
Entries ==
    [changed : {Attr(FALSE, <<>>)} \cup {Attr(TRUE, t) : t \in ChangedTimes},
     subentry : {Attr(FALSE, ""), Attr(TRUE, PolicyDefault), Attr(TRUE, PolicyGone)}]

\* the pwdMaxAge attribute the directory may hold for the policy entry
Policies == {Attr(FALSE, <<>>)} \cup {Attr(TRUE, a) : a \in MaxAges}

\* concurrent callers: one uses a client constructed with a CA certificate file,
\* the others a client constructed without
Threads == {"verified", "insecure_a", "insecure_b"}

CaCertFile == "/etc/ssl/certs/ldap-ca.pem"

ThreadClient(t) ==
    [ldap_uri |-> URI("ldaps://", "ldap.example.com:636"), base_dn |-> BaseDN,
     ca_cert_file |-> IF t = "verified" THEN CaCertFile ELSE ""]

NoConn == [state |-> "none", require_cert |-> "", cacertfile |-> ""]

NoLocals == [pwd_changed_time |-> NoDT, policy_dn |-> "", now |-> [dt |-> NoDT, us |-> 0]]

\* OpenLDAPClient.__init__: TRUE when it raises ValueError
init_raises(ldap_uri) == ldap_uri.scheme # "ldaps://"

Init ==
    /\ client \in {[ldap_uri |-> u, base_dn |-> BaseDN, ca_cert_file |-> ""] :
                       u \in {v \in URIs : ~init_raises(v)}}
    /\ opt = [require_cert |-> "DEMAND", cacertfile |-> "", protocol_version |-> 3]
    /\ pc = "idle"
    /\ call = NoCall
    /\ conn = "none"
    /\ trace = <<>>
    /\ locals = NoLocals
    /\ pending = NoResult
    /\ result = NoResult
    /\ dirPwd = [d \in DirDNs |-> IF d.value = "alice" THEN PwOld ELSE PwSvc]
    /\ dirEntry = NoEntry
    /\ dirPolicy = Attr(FALSE, <<>>)
    /\ threads = [t \in Threads |-> [pc |-> "idle", conn |-> NoConn]]

(***************************************************************************)
(* The directory server's answers                                          *)
(***************************************************************************)
\* simple_bind_s: "ok" or the exception raised.  A bind with a DN and an empty
\* password is an unauthenticated bind, which the server either refuses
\* (unwillingToPerform) or accepts as anonymous.
BindOutcomes(dn, password) ==
    (IF password = <<>> THEN {"ok", "UNWILLING_TO_PERFORM"}
     ELSE IF dn \in DirDNs /\ dirPwd[dn] = password THEN {"ok"}
     ELSE {"INVALID_CREDENTIALS"})
    \cup {"SERVER_DOWN", "OTHER"}

\* passwd_s
PasswdOutcomes(dn, old_password) ==
    (IF dn \notin DirDNs THEN {"NO_SUCH_OBJECT"}
     ELSE IF dirPwd[dn] = old_password THEN {"ok", "UNWILLING_TO_PERFORM"}
     ELSE {"INVALID_CREDENTIALS"})
    \cup {"SERVER_DOWN", "OTHER"}

SearchErrors == {"SERVER_DOWN", "INSUFFICIENT_ACCESS", "NO_SUCH_OBJECT", "OTHER"}

\* search_s(base_dn, SCOPE_SUBTREE, "(uid=<name>)", attrs): the entries found
UserSearchResult(name) ==
    IF name \in DirUids THEN <<IF name = "alice" THEN dirEntry ELSE NoEntry>>
    ELSE <<>>

\* search_s(policy_dn, SCOPE_BASE, attrlist=["pwdMaxAge"])
PolicySearchOutcomes(policy_dn) ==
    (IF policy_dn = PolicyDefault THEN {"ok"} ELSE {"NO_SUCH_OBJECT"}) \cup SearchErrors

\* ldap.initialize
InitializeOutcome(ldap_uri) == IF ldap_uri.rest \in ParsableRests THEN "ok" ELSE "OTHER"

(***************************************************************************)
(* OpenLDAPClient                                                          *)
(***************************************************************************)
get_user_dn(username, base_dn) ==
    IF username = "admin" THEN DN("cn", "admin", "", base_dn)
    ELSE IF username = "xops" THEN DN("uid", username, "service", base_dn)
    ELSE DN("uid", username, "people", base_dn)

\* the options _get_connection leaves set
get_connection_options(c, o) ==
    IF c.ca_cert_file # ""
    THEN [o EXCEPT !.cacertfile = c.ca_cert_file, !.require_cert = "DEMAND", !.protocol_version = 3]
    ELSE [o EXCEPT !.require_cert = "ALLOW", !.protocol_version = 3]

\* a or b
Or(a, b) == IF a = "" THEN b ELSE a

OrBytes(a, b) == IF a = <<>> THEN b ELSE a

\* the first two statements of every public operation: _get_user_dn and
\* _get_connection, which is outside the try statement
Begin(c, bind_pc) ==
    /\ pc = "idle"
    /\ call' = c
    /\ opt' = get_connection_options(client, opt)
    /\ trace' = <<Ev("initialize", InitializeOutcome(client.ldap_uri))>>
    /\ IF InitializeOutcome(client.ldap_uri) = "ok"
       THEN conn' = "open" /\ pc' = bind_pc /\ result' = NoResult
       ELSE conn' = "none" /\ pc' = "done" /\ result' = Raise(InitializeOutcome(client.ldap_uri))
    /\ UNCHANGED <<threads, client, locals, pending, dirPwd>>

\* Finally with conn.unbind_s() at the end of the try body instead of in a finally
\* clause: an exception that propagates skips it
FinallyNotOnRaise(finally_pc) ==
    /\ pc = finally_pc
    /\ trace' = IF pending.kind = "raise" THEN trace ELSE Append(trace, Ev("unbind_s", "ok"))
    /\ conn' = IF pending.kind = "raise" THEN conn ELSE "closed"
    /\ result' = pending
    /\ pc' = "done"
    /\ UNCHANGED <<threads, client, opt, call, locals, pending, dirPwd, dirEntry, dirPolicy>>

\* the finally clause: conn.unbind_s(), then the return or raise that was pending
Finally(finally_pc) ==
    /\ pc = finally_pc
    /\ trace' = Append(trace, Ev("unbind_s", "ok"))
    /\ conn' = "closed"
    /\ result' = pending
    /\ pc' = "done"
    /\ UNCHANGED <<threads, client, opt, call, locals, pending, dirPwd, dirEntry, dirPolicy>>

(******************************* authenticate ******************************)
\* authenticate_except with the except clauses in another order: LDAPError first
authenticate_except_reordered(e, username) ==
    IF e \in LDAPErrors
    THEN ReturnTuple(FALSE, Msg("An LDAP error occurred during authentication for {username}: {e}",
                                username, e, <<>>))
    ELSE Raise(e)

authenticate_except(e, username) ==
    IF e = "INVALID_CREDENTIALS"
    THEN ReturnTuple(FALSE, Msg("Authentication failed: Invalid credentials for user {username}.",
                                username, "", <<>>))
    ELSE IF e = "SERVER_DOWN"
    THEN ReturnTuple(FALSE, Msg("LDAP server is down or unreachable: {e}", "", e, <<>>))
    ELSE IF e \in LDAPErrors
    THEN ReturnTuple(FALSE, Msg("An LDAP error occurred during authentication for {username}: {e}",
                                username, e, <<>>))
    ELSE Raise(e)

AuthStart ==
    /\ \E u \in Usernames, p \in BindPasswords :
        Begin([NoCall EXCEPT !.op = "authenticate", !.username = u, !.password = p], "auth_bind")
    /\ UNCHANGED <<dirEntry, dirPolicy>>

AuthBind ==
    /\ pc = "auth_bind"
    /\ \E out \in BindOutcomes(get_user_dn(call.username, client.base_dn), call.password) :
        /\ trace' = Append(trace, Ev("simple_bind_s", out))
        /\ conn' = IF out = "ok" THEN "bound" ELSE conn
        /\ pending' = IF out = "ok"
                      THEN ReturnTuple(TRUE, Msg("Authentication successful for user: {username}",
                                                 call.username, "", <<>>))
                      ELSE authenticate_except(out, call.username)
    /\ pc' = "auth_finally"
    /\ UNCHANGED <<threads, client, opt, call, locals, result, dirPwd, dirEntry, dirPolicy>>

AuthFinally == Finally("auth_finally")

(***************************** change_password *****************************)
\* change_password_except without its first except clause
change_password_except_generic(e) ==
    IF e = "UNWILLING_TO_PERFORM"
    THEN ReturnTuple(FALSE, Msg("New password does not meet the complexity/history policy.", "", "", <<>>))
    ELSE IF e = "SERVER_DOWN"
    THEN ReturnTuple(FALSE, Msg("LDAP server is unavailable.", "", "", <<>>))
    ELSE IF e \in LDAPErrors
    THEN ReturnTuple(FALSE, Msg("An LDAP error occurred: {e}", "", e, <<>>))
    ELSE Raise(e)

change_password_except(e) ==
    IF e = "INVALID_CREDENTIALS"
    THEN ReturnTuple(FALSE, Msg("Invalid old password.", "", "", <<>>))
    ELSE IF e = "UNWILLING_TO_PERFORM"
    THEN ReturnTuple(FALSE, Msg("New password does not meet the complexity/history policy.", "", "", <<>>))
    ELSE IF e = "SERVER_DOWN"
    THEN ReturnTuple(FALSE, Msg("LDAP server is unavailable.", "", "", <<>>))
    ELSE IF e \in LDAPErrors
    THEN ReturnTuple(FALSE, Msg("An LDAP error occurred: {e}", "", e, <<>>))
    ELSE Raise(e)

ChangeStart ==
    /\ \E u \in Usernames, p \in OldPasswords, n \in NewPasswords :
        Begin([NoCall EXCEPT !.op = "change_password", !.username = u, !.password = p,
                             !.new_password = n], "change_bind")
    /\ UNCHANGED <<dirEntry, dirPolicy>>

\* ChangeBind that goes on with the try body whatever the bind answered
ChangeBindIgnoringFailure ==
    /\ pc = "change_bind"
    /\ \E out \in BindOutcomes(get_user_dn(call.username, client.base_dn), call.password) :
        /\ trace' = Append(trace, Ev("simple_bind_s", out))
        /\ conn' = IF out = "ok" THEN "bound" ELSE conn
        /\ pending' = pending
        /\ pc' = "change_check"
    /\ UNCHANGED <<threads, client, opt, call, locals, result, dirPwd, dirEntry, dirPolicy>>

\* conn.simple_bind_s(user_dn, old_password)
ChangeBind ==
    /\ pc = "change_bind"
    /\ \E out \in BindOutcomes(get_user_dn(call.username, client.base_dn), call.password) :
        /\ trace' = Append(trace, Ev("simple_bind_s", out))
        /\ conn' = IF out = "ok" THEN "bound" ELSE conn
        /\ pending' = IF out = "ok" THEN pending ELSE change_password_except(out)
        /\ pc' = IF out = "ok" THEN "change_check" ELSE "change_finally"
    /\ UNCHANGED <<threads, client, opt, call, locals, result, dirPwd, dirEntry, dirPolicy>>

\* ChangeCheck without the early return: the verdict is logged and ignored
ChangeCheckNoReturn ==
    /\ pc = "change_check"
    /\ LET v == check_password_complexity_with_reason(call.new_password)
       IN /\ trace' = Append(trace, Ev("check_password_complexity_with_reason",
                                       IF v.passed THEN "passed" ELSE "rejected"))
          /\ pending' = pending
          /\ pc' = "change_passwd"
    /\ UNCHANGED <<threads, client, opt, call, conn, locals, result, dirPwd, dirEntry, dirPolicy>>

\* check_password_complexity_with_reason(new_password) and the early return
ChangeCheck ==
    /\ pc = "change_check"
    /\ LET v == check_password_complexity_with_reason(call.new_password)
       IN /\ trace' = Append(trace, Ev("check_password_complexity_with_reason",
                                       IF v.passed THEN "passed" ELSE "rejected"))
          /\ pending' = IF v.passed THEN pending ELSE ReturnTuple(FALSE, v.reason)
          /\ pc' = IF v.passed THEN "change_passwd" ELSE "change_finally"
    /\ UNCHANGED <<threads, client, opt, call, conn, locals, result, dirPwd, dirEntry, dirPolicy>>

\* conn.passwd_s(user_dn, old_password, new_password)
ChangeModify ==
    /\ pc = "change_passwd"
    /\ LET user_dn == get_user_dn(call.username, client.base_dn)
       IN \E out \in PasswdOutcomes(user_dn, call.password) :
            /\ trace' = Append(trace, Ev("passwd_s", out))
            /\ dirPwd' = IF out = "ok" THEN [dirPwd EXCEPT ![user_dn] = call.new_password] ELSE dirPwd
            /\ pending' = IF out = "ok"
                          THEN ReturnTuple(TRUE, Msg("Password changed successfully.", "", "", <<>>))
                          ELSE change_password_except(out)
    /\ pc' = "change_finally"
    /\ UNCHANGED <<threads, client, opt, call, conn, locals, result, dirEntry, dirPolicy>>

ChangeFinally == Finally("change_finally")

(****************************** get_user_info ******************************)
get_user_info_except(e, bind_user, username_to_query) ==
    IF e = "INVALID_CREDENTIALS"
    THEN ReturnMessage(Msg("Invalid credentials for user '{bind_user}'.", bind_user, "", <<>>))
    ELSE IF e \in LDAPErrors
    THEN ReturnMessage(Msg("LDAP error occurred while querying '{username_to_query}': {e}",
                           username_to_query, e, <<>>))
    ELSE Raise(e)

InfoStart ==
    /\ \E q \in QueryUsers, au \in AdminUsers, ap \in AdminPasswords :
        Begin([NoCall EXCEPT !.op = "get_user_info", !.username = q, !.admin_user = au,
                             !.admin_password = ap], "info_bind")
    /\ UNCHANGED <<dirEntry, dirPolicy>>

\* bind_user = admin_user or username_to_query; bind_password = admin_password or ""
InfoBind ==
    /\ pc = "info_bind"
    /\ LET bind_user == Or(call.admin_user, call.username)
           bind_password == OrBytes(call.admin_password, <<>>)
       IN \E out \in BindOutcomes(get_user_dn(bind_user, client.base_dn), bind_password) :
            /\ trace' = Append(trace, Ev("simple_bind_s", out))
            /\ conn' = IF out = "ok" THEN "bound" ELSE conn
            /\ pending' = IF out = "ok" THEN pending
                          ELSE get_user_info_except(out, bind_user, call.username)
            /\ pc' = IF out = "ok" THEN "info_search" ELSE "info_finally"
    /\ UNCHANGED <<threads, client, opt, call, locals, result, dirPwd, dirEntry, dirPolicy>>

\* InfoSearch that issues the search again when the server is down
InfoSearchRetry ==
    /\ pc = "info_search"
    /\ \E out \in {"ok"} \cup SearchErrors :
        /\ trace' = Append(trace, EvSearch(client.base_dn, "SUBTREE", out))
        /\ pending' =
              IF out # "ok"
              THEN get_user_info_except(out, Or(call.admin_user, call.username), call.username)
              ELSE IF UserSearchResult(call.username) = <<>>
              THEN ReturnMessage(Msg("User '{username_to_query}' not found.", call.username, "", <<>>))
              ELSE [NoResult EXCEPT !.kind = "return", !.shape = "dict", !.keys = {"uid", "cn"}]
        /\ pc' = IF out = "SERVER_DOWN" /\ Len(trace) < 4 THEN "info_search" ELSE "info_finally"
    /\ UNCHANGED <<threads, client, opt, call, conn, locals, result, dirPwd, dirEntry, dirPolicy>>

\* conn.search_s(...) and the rest of the try body
InfoSearch ==
    /\ pc = "info_search"
    /\ \E out \in {"ok"} \cup SearchErrors :
        /\ trace' = Append(trace, EvSearch(client.base_dn, "SUBTREE", out))
        /\ pending' =
              IF out # "ok"
              THEN get_user_info_except(out, Or(call.admin_user, call.username), call.username)
              ELSE IF UserSearchResult(call.username) = <<>>
              THEN ReturnMessage(Msg("User '{username_to_query}' not found.", call.username, "", <<>>))
              ELSE [NoResult EXCEPT !.kind = "return", !.shape = "dict", !.keys = {"uid", "cn"}]
    /\ pc' = "info_finally"
    /\ UNCHANGED <<threads, client, opt, call, conn, locals, result, dirPwd, dirEntry, dirPolicy>>

InfoFinally == Finally("info_finally")

(************************* get_password_expiry_info ************************)
get_password_expiry_info_except(e, admin_user, username_to_query) ==
    IF e = "INSUFFICIENT_ACCESS"
    THEN ReturnMessage(Msg("Admin user '{admin_user}' does not have sufficient rights to read password policy attributes.",
                           admin_user, "", <<>>))
    ELSE IF e = "NO_SUCH_OBJECT"
    THEN ReturnMessage(Msg("User '{username_to_query}' or required policy object not found.",
                           username_to_query, "", <<>>))
    ELSE IF e \in LDAPErrors
    THEN ReturnMessage(Msg("An LDAP error occurred: {e}", "", e, <<>>))
    ELSE Raise(e)

\* the call starts against a directory holding any of the policy attributes
ExpiryStart ==
    /\ \E q \in QueryUsers, au \in AdminUsers, ap \in AdminPasswords :
        Begin([NoCall EXCEPT !.op = "get_password_expiry_info", !.username = q,
                             !.admin_user = au, !.admin_password = ap], "expiry_bind")
    /\ dirEntry' \in Entries
    /\ dirPolicy' \in Policies

\* conn.simple_bind_s(admin_dn, admin_password)
ExpiryBind ==
    /\ pc = "expiry_bind"
    /\ \E out \in BindOutcomes(get_user_dn(call.admin_user, client.base_dn), call.admin_password) :
        /\ trace' = Append(trace, Ev("simple_bind_s", out))
        /\ conn' = IF out = "ok" THEN "bound" ELSE conn
        /\ pending' = IF out = "ok" THEN pending
                      ELSE get_password_expiry_info_except(out, call.admin_user, call.username)
        /\ pc' = IF out = "ok" THEN "expiry_search_user" ELSE "expiry_finally"
    /\ UNCHANGED <<threads, client, opt, call, locals, result, dirPwd, dirEntry, dirPolicy>>

\* what the try body does with the result of the first search, up to the second one:
\* a record [pending, locals, go], go meaning that the second search is issued
expiry_after_user_search(search_result, username_to_query) ==
    IF search_result = <<>>
    THEN [go |-> FALSE, locals |-> NoLocals,
          pending |-> ReturnMessage(Msg("User '{username_to_query}' not found.", username_to_query, "", <<>>))]
    ELSE LET user_entry == search_result[1]
         IN IF ~user_entry.changed.present
            THEN [go |-> FALSE, locals |-> NoLocals,
                  pending |-> ReturnMessage(Msg("Could not retrieve password last changed time. ppolicy overlay may not be active.",
                                                "", "", <<>>))]
            ELSE LET parsed == strptime(RStrip(user_entry.changed.value, 90))
                 IN IF ~parsed.ok
                    THEN [go |-> FALSE, locals |-> NoLocals, pending |-> Raise("ValueError")]
                    ELSE IF ~user_entry.subentry.present
                    THEN [go |-> FALSE, locals |-> [NoLocals EXCEPT !.pwd_changed_time = parsed.dt],
                          pending |-> ReturnMessage(Msg("User is not subject to any password policy.", "", "", <<>>))]
                    ELSE [go |-> TRUE,
                          locals |-> [NoLocals EXCEPT !.pwd_changed_time = parsed.dt,
                                                      !.policy_dn = user_entry.subentry.value],
                          pending |-> NoResult]

\* conn.search_s(self.base_dn, SCOPE_SUBTREE, "(uid=...)", ["pwdChangedTime", "pwdPolicySubentry"])
ExpirySearchUser ==
    /\ pc = "expiry_search_user"
    /\ \E out \in {"ok"} \cup SearchErrors :
        /\ trace' = Append(trace, EvSearch(client.base_dn, "SUBTREE", out))
        /\ IF out # "ok"
           THEN /\ pending' = get_password_expiry_info_except(out, call.admin_user, call.username)
                /\ locals' = locals
                /\ pc' = "expiry_finally"
           ELSE LET r == expiry_after_user_search(UserSearchResult(call.username), call.username)
                IN /\ pending' = r.pending
                   /\ locals' = r.locals
                   /\ pc' = IF r.go THEN "expiry_search_policy" ELSE "expiry_finally"
    /\ UNCHANGED <<threads, client, opt, call, conn, result, dirPwd, dirEntry, dirPolicy>>

\* expiry_after_policy_search without the test for pwdMaxAge = 0
expiry_after_policy_search_no_zero(pwd_max_age, pwd_changed_time, now) ==
    IF ~pwd_max_age.present
    THEN ReturnMessage(Msg("Could not retrieve pwdMaxAge from the password policy.", "", "", <<>>))
    ELSE LET parsed == ParseInt(pwd_max_age.value)
         IN IF ~parsed.ok THEN Raise("ValueError")
            ELSE LET expiry_date == AddSeconds(pwd_changed_time, parsed.n)
                 IN [NoResult EXCEPT !.kind = "return", !.shape = "dict",
                                     !.keys = {"expiry_date", "days_left", "last_changed", "message"},
                                     !.expiry_date = expiry_date,
                                     !.days_left = TimedeltaDays(expiry_date, now.dt, now.us),
                                     !.last_changed = pwd_changed_time,
                                     !.msg = Msg("Password expires on {expiry_date_aware.isoformat()} UTC.",
                                                 "", "", <<>>)]

\* what the try body returns after the second search answered with the policy entry
expiry_after_policy_search(pwd_max_age, pwd_changed_time, now) ==
    IF ~pwd_max_age.present
    THEN ReturnMessage(Msg("Could not retrieve pwdMaxAge from the password policy.", "", "", <<>>))
    ELSE LET parsed == ParseInt(pwd_max_age.value)
         IN IF ~parsed.ok THEN Raise("ValueError")
            ELSE IF parsed.n = 0
            THEN [NoResult EXCEPT !.kind = "return", !.shape = "dict",
                                  !.keys = {"expiry_date", "days_left", "message"},
                                  !.expiry_none = TRUE, !.days_inf = TRUE,
                                  !.msg = Msg("Password is set to never expire.", "", "", <<>>)]
            ELSE LET expiry_date == AddSeconds(pwd_changed_time, parsed.n)
                 IN [NoResult EXCEPT !.kind = "return", !.shape = "dict",
                                     !.keys = {"expiry_date", "days_left", "last_changed", "message"},
                                     !.expiry_date = expiry_date,
                                     !.days_left = TimedeltaDays(expiry_date, now.dt, now.us),
                                     !.last_changed = pwd_changed_time,
                                     !.msg = Msg("Password expires on {expiry_date_aware.isoformat()} UTC.",
                                                 "", "", <<>>)]

\* conn.search_s(policy_dn, SCOPE_BASE, attrlist=["pwdMaxAge"]) and the rest of the body
ExpirySearchPolicy ==
    /\ pc = "expiry_search_policy"
    /\ \E out \in PolicySearchOutcomes(locals.policy_dn), now \in Nows :
        /\ trace' = Append(trace, EvSearch(locals.policy_dn, "BASE", out))
        /\ IF out # "ok"
           THEN /\ pending' = get_password_expiry_info_except(out, call.admin_user, call.username)
                /\ locals' = locals
           ELSE /\ pending' = expiry_after_policy_search(dirPolicy, locals.pwd_changed_time, now)
                /\ locals' = [locals EXCEPT !.now = IF pending'.keys = {"expiry_date", "days_left", "last_changed", "message"}
                                                     THEN now ELSE locals.now]
    /\ pc' = "expiry_finally"
    /\ UNCHANGED <<threads, client, opt, call, conn, result, dirPwd, dirEntry, dirPolicy>>

ExpiryFinally == Finally("expiry_finally")

\* the caller has the result; the call's frame is gone and the next call can start
NextCall ==
    /\ pc = "done"
    /\ pc' = "idle"
    /\ call' = NoCall
    /\ conn' = "none"
    /\ trace' = <<>>
    /\ locals' = NoLocals
    /\ pending' = NoResult
    /\ result' = NoResult
    /\ dirEntry' = NoEntry
    /\ dirPolicy' = Attr(FALSE, <<>>)
    /\ UNCHANGED <<threads, client, opt, dirPwd>>

Next ==
    \/ NextCall
    \/ AuthStart
    \/ AuthBind
    \/ AuthFinally
    \/ ChangeStart
    \/ ChangeBind
    \/ ChangeCheck
    \/ ChangeModify
    \/ ChangeFinally
    \/ InfoStart
    \/ InfoBind
    \/ InfoSearch
    \/ InfoFinally
    \/ ExpiryStart
    \/ ExpiryBind
    \/ ExpirySearchUser
    \/ ExpirySearchPolicy
    \/ ExpiryFinally

Spec == Init /\ [][Next]_vars

(***************************************************************************)
(* _get_connection statement by statement, run by concurrent callers.  The *)
(* options ldap.set_option writes are those of the process; the connection *)
(* ldap.initialize creates takes the options in force at that moment.      *)
(***************************************************************************)
Step(t, from, to) ==
    /\ threads[t].pc = from
    /\ threads' = [threads EXCEPT ![t].pc = to]

SeqVars == <<client, pc, call, conn, trace, locals, pending, result, dirPwd, dirEntry, dirPolicy>>

\* ldap.set_option(ldap.OPT_X_TLS_CACERTFILE, self.ca_cert_file)
TSetCaCertFile(t) ==
    /\ ThreadClient(t).ca_cert_file # ""
    /\ Step(t, "idle", "set_require_cert")
    /\ opt' = [opt EXCEPT !.cacertfile = ThreadClient(t).ca_cert_file]
    /\ UNCHANGED SeqVars

\* ldap.set_option(ldap.OPT_X_TLS_REQUIRE_CERT, ldap.OPT_X_TLS_DEMAND)
TSetDemand(t) ==
    /\ Step(t, "set_require_cert", "set_version")
    /\ opt' = [opt EXCEPT !.require_cert = "DEMAND"]
    /\ UNCHANGED SeqVars

\* ldap.set_option(ldap.OPT_X_TLS_REQUIRE_CERT, ldap.OPT_X_TLS_ALLOW)
TSetAllow(t) ==
    /\ ThreadClient(t).ca_cert_file = ""
    /\ Step(t, "idle", "set_version")
    /\ opt' = [opt EXCEPT !.require_cert = "ALLOW"]
    /\ UNCHANGED SeqVars

\* ldap.set_option(ldap.OPT_PROTOCOL_VERSION, ldap.VERSION3)
TSetVersion(t) ==
    /\ Step(t, "set_version", "initialize")
    /\ opt' = [opt EXCEPT !.protocol_version = 3]
    /\ UNCHANGED SeqVars

\* conn = ldap.initialize(self.ldap_uri)
TInitialize(t) ==
    /\ threads[t].pc = "initialize"
    /\ threads' = [threads EXCEPT ![t] =
                       [pc |-> "connected",
                        conn |-> [state |-> "open", require_cert |-> opt.require_cert,
                                  cacertfile |-> opt.cacertfile]]]
    /\ UNCHANGED opt
    /\ UNCHANGED SeqVars

\* the rest of the public operation, to the unbind_s of its finally clause
TFinish(t) ==
    /\ threads[t].pc = "connected"
    /\ threads' = [threads EXCEPT ![t] = [pc |-> "idle", conn |-> NoConn]]
    /\ UNCHANGED opt
    /\ UNCHANGED SeqVars

NextConc ==
    \E t \in Threads :
        \/ TSetCaCertFile(t)
        \/ TSetDemand(t)
        \/ TSetAllow(t)
        \/ TSetVersion(t)
        \/ TInitialize(t)
        \/ TFinish(t)

SpecConc == Init /\ [][NextConc]_vars

(***************************************************************************)
(* check_password_complexity_with_reason applied to candidate passwords: a *)
(* caller starts from one of a few texts, types more characters, and asks  *)
(* for the verdict.                                                        *)
(***************************************************************************)
\* "hxkqvmzpb": lower case only, 9 characters, no run, no keyboard triple
PwLowerShort == <<104, 120, 107, 113, 118, 109, 122, 112, 98>>

\* "Xk7#mQ9$vL": four classes, 10 characters
PwFourClasses == <<88, 107, 55, 35, 109, 81, 57, 36, 118, 76>>

\* the texts a candidate starts from: empty, 9, 10, 13 and 30 characters
EngineBases ==
    {<<>>, PwLowerShort, PwFourClasses, PwSequential, PwFourClasses \o PwFourClasses \o PwFourClasses}

\* the characters typed after it: c d e r t D 1 2 3 !
EngineChars == {99, 100, 101, 114, 116, 68, 49, 50, 51, 33}

\* how many characters are typed after the starting text
MaxSuffix == 3

\* call.password keeps the starting text, call.new_password the candidate
InitEngine ==
    /\ client = [ldap_uri |-> URI("ldaps://", "ldap.example.com:636"), base_dn |-> BaseDN,
                 ca_cert_file |-> ""]
    /\ opt = [require_cert |-> "DEMAND", cacertfile |-> "", protocol_version |-> 3]
    /\ pc = "engine_input"
    /\ \E b \in EngineBases :
          call = [NoCall EXCEPT !.op = "check_password_complexity_with_reason",
                                !.password = b, !.new_password = b]
    /\ conn = "none"
    /\ trace = <<>>
    /\ locals = NoLocals
    /\ pending = NoResult
    /\ result = NoResult
    /\ dirPwd = [d \in DirDNs |-> IF d.value = "alice" THEN PwOld ELSE PwSvc]
    /\ dirEntry = NoEntry
    /\ dirPolicy = Attr(FALSE, <<>>)
    /\ threads = [t \in Threads |-> [pc |-> "idle", conn |-> NoConn]]

\* one more character of the candidate
EngineType ==
    /\ pc = "engine_input"
    /\ Len(call.new_password) - Len(call.password) < MaxSuffix
    /\ \E c \in EngineChars : call' = [call EXCEPT !.new_password = Append(@, c)]
    /\ UNCHANGED <<threads, client, opt, pc, conn, trace, locals, pending, result, dirPwd,
                   dirEntry, dirPolicy>>

\* passed, reason = check_password_complexity_with_reason(password)
EngineCheck ==
    /\ pc = "engine_input"
    /\ LET v == check_password_complexity_with_reason(call.new_password)
       IN result' = ReturnTuple(v.passed, v.reason)
    /\ pc' = "engine_done"
    /\ UNCHANGED <<threads, client, opt, call, conn, trace, locals, pending, dirPwd, dirEntry,
                   dirPolicy>>

NextEngine ==
    \/ EngineType
    \/ EngineCheck

SpecEngine == InitEngine /\ [][NextEngine]_vars

(***************************************************************************)
(* Properties                                                              *)
(***************************************************************************)
\* the events of the trace with operation op
Events(op) == {i \in 1..Len(trace) : trace[i].op = op}

Has(op, res) == \E i \in 1..Len(trace) : trace[i] = Ev(op, res)

\* the call obtained a connection
Obtained == Len(trace) > 0 /\ trace[1] = Ev("initialize", "ok")

\* C1: a call that obtained a connection has unbound it exactly once when it
\* returns or raises, whatever path it took; it never unbinds twice, and a call
\* still running has not unbound yet.
C1_UnbindExactlyOnce ==
    /\ Cardinality(Events("unbind_s")) <= 1
    /\ (pc = "done" /\ Obtained) =>
           /\ Cardinality(Events("unbind_s")) = 1
           /\ trace[Len(trace)].op = "unbind_s"
           /\ conn = "closed"
    /\ pc \notin {"done", "idle"} => Events("unbind_s") = {}

\* a call in which a non-LDAP exception left the try body has unbound once
C1_Witness ==
    /\ pc = "done"
    /\ call.op = "get_password_expiry_info"
    /\ result.kind = "raise"
    /\ result.exc = "ValueError"
    /\ Cardinality(Events("unbind_s")) = 1

\* C2: in change_password, when the bind with the old password is refused with
\* invalid credentials, the new password is never evaluated, no password-modify
\* is issued, and the call returns (False, "Invalid old password.").
C2_InvalidOldPasswordFailsFast ==
    (call.op = "change_password" /\ Has("simple_bind_s", "INVALID_CREDENTIALS")) =>
        /\ Events("check_password_complexity_with_reason") = {}
        /\ Events("passwd_s") = {}
        /\ pc = "done" => result = ReturnTuple(FALSE, Msg("Invalid old password.", "", "", <<>>))

C2_Witness ==
    /\ pc = "done"
    /\ call.op = "change_password"
    /\ call.new_password = PwSequential
    /\ Has("simple_bind_s", "INVALID_CREDENTIALS")
    /\ result.kind = "return"

\* the verdict of the first failing rule, in the fixed order of the six rules
FirstFailingReason(password) ==
    LET checks == complexity_checks(password)
    IN checks[First({k \in 1..Len(checks) : ~checks[k].passed})].reason

\* C3: in change_password, a new password the engine rejects makes the call
\* return ok = False with the reason of the first failing rule and no
\* password-modify is issued; a password-modify is issued only after the bind
\* succeeded and the engine passed the new password.
C3_LocalRejectionNeverMutates ==
    call.op = "change_password" =>
        /\ Has("check_password_complexity_with_reason", "rejected") =>
              /\ Events("passwd_s") = {}
              /\ \E k \in 1..6 : ~complexity_checks(call.new_password)[k].passed
              /\ pc = "done" =>
                    result = ReturnTuple(FALSE, FirstFailingReason(call.new_password))
        /\ \A i \in Events("passwd_s") :
              /\ i = 4
              /\ trace[2] = Ev("simple_bind_s", "ok")
              /\ trace[3] = Ev("check_password_complexity_with_reason", "passed")
              /\ \A k \in 1..6 : complexity_checks(call.new_password)[k].passed

C3_Witness ==
    /\ pc = "done"
    /\ call.op = "change_password"
    /\ call.new_password = PwKeyboard
    /\ Has("check_password_complexity_with_reason", "rejected")
    /\ result.ok = FALSE

PolicyRejectedMsg == Msg("New password does not meet the complexity/history policy.", "", "", <<>>)

\* C4: change_password returns the server-side policy-rejected message only
\* when the password-modify was issued and the server rejected it, never for a
\* failure of the bind with the old password.
C4_PolicyRejectedOnlyFromModify ==
    (pc = "done" /\ call.op = "change_password" /\ result.msg = PolicyRejectedMsg) =>
        /\ Has("passwd_s", "UNWILLING_TO_PERFORM")
        /\ Has("simple_bind_s", "ok")

InvalidCredentialsMsg(username) ==
    Msg("Authentication failed: Invalid credentials for user {username}.", username, "", <<>>)

\* C5: authenticate answers a bind refused with invalid credentials with
\* (False, invalid-credentials message), a message that is a function of the
\* user name alone (the same for a name with and without an entry), and answers
\* every other LDAP failure of the bind with (False, another message).
C5_InvalidCredentialsDistinct ==
    (pc = "done" /\ call.op = "authenticate" /\ Obtained) =>
        /\ Has("simple_bind_s", "INVALID_CREDENTIALS") =>
               result = ReturnTuple(FALSE, InvalidCredentialsMsg(call.username))
        /\ \A e \in LDAPErrors \ {"INVALID_CREDENTIALS"} :
               Has("simple_bind_s", e) =>
                   /\ result.kind = "return"
                   /\ result.ok = FALSE
                   /\ result.msg.text # InvalidCredentialsMsg(call.username).text
                   /\ result.msg.err = e

\* invalid credentials for a user name that has no entry in the directory
C5_Witness ==
    /\ pc = "done"
    /\ call.op = "authenticate"
    /\ call.username = "bob"
    /\ get_user_dn(call.username, client.base_dn) \notin DirDNs
    /\ Has("simple_bind_s", "INVALID_CREDENTIALS")
    /\ result.ok = FALSE

\* the call ended with a failure result: (False, msg) or {"message": msg}
FailureResult ==
    /\ result.kind = "return"
    /\ \/ result.shape = "tuple" /\ result.ok = FALSE
       \/ result.shape = "dict" /\ result.keys = {"message"}

\* C6: a call binds at most once, and after an exchange failed with
\* SERVER_DOWN it issues nothing but the unbind and ends with a failure result.
C6_NoRetry ==
    /\ Cardinality(Events("simple_bind_s")) <= 1
    /\ \A i \in 1..Len(trace) :
          trace[i].res = "SERVER_DOWN" =>
              /\ \A j \in (i + 1)..Len(trace) : trace[j].op = "unbind_s"
              /\ pc = "done" => FailureResult

\* the server went down at the second search of get_password_expiry_info
C6_Witness ==
    /\ pc = "done"
    /\ call.op = "get_password_expiry_info"
    /\ Len(trace) = 5
    /\ trace[4] = EvSearch(PolicyDefault, "BASE", "SERVER_DOWN")
    /\ FailureResult

\* C7: no LDAP failure of any step leaves a public operation as an exception.
C7_NoLdapErrorEscapes ==
    (pc = "done" /\ result.kind = "raise") => result.exc \notin LDAPErrors

\* every exchange of the call was answered without an error
NoLdapFailure == \A i \in 1..Len(trace) : trace[i].res = "ok"

\* get_password_expiry_info for alice ran to its end without a protocol failure
\* while alice's entry referred to the policy entry and that entry had pwdMaxAge = 0
ZeroMaxAgeCall ==
    /\ pc = "done"
    /\ call.op = "get_password_expiry_info"
    /\ call.username = "alice"
    /\ NoLdapFailure
    /\ dirEntry.subentry = Attr(TRUE, PolicyDefault)
    /\ dirPolicy = Attr(TRUE, <<48>>)

NeverExpires ==
    /\ result.kind = "return"
    /\ result.keys = {"expiry_date", "days_left", "message"}
    /\ result.days_inf
    /\ result.expiry_none

Seconds(dt) == (ymd2ord(dt.Y, dt.M, dt.D) - ymd2ord(2020, 1, 1)) * 86400 + seconds_of_day(dt)

ValidDT(dt) ==
    /\ dt.M \in 1..12
    /\ dt.D \in 1..days_in_month(dt.Y, dt.M)
    /\ dt.h \in 0..23
    /\ dt.m \in 0..59
    /\ dt.s \in 0..59

\* get_password_expiry_info for alice ran to its end without a protocol failure
\* on an entry with a pwdChangedTime that parses and a policy with pwdMaxAge > 0
PositiveMaxAgeCall ==
    /\ pc = "done"
    /\ call.op = "get_password_expiry_info"
    /\ call.username = "alice"
    /\ NoLdapFailure
    /\ dirEntry.changed.present
    /\ strptime(RStrip(dirEntry.changed.value, 90)).ok
    /\ dirEntry.subentry = Attr(TRUE, PolicyDefault)
    /\ dirPolicy.present
    /\ DigitsValue(dirPolicy.value) > 0

\* C10: with pwdMaxAge > 0 the result is a normal result with expiry_date =
\* pwdChangedTime + pwdMaxAge seconds and days_left = floor((expiry_date - now) /
\* one day), negative when expiry_date is before now; "20230101000000Z" with
\* pwdMaxAge 7776000 at 2023-04-15T00:00:00Z gives 2023-04-01T00:00:00 and -14.
C10_ExpiryArithmetic ==
    PositiveMaxAgeCall =>
        LET changed == strptime(RStrip(dirEntry.changed.value, 90)).dt
            age     == DigitsValue(dirPolicy.value)
            now     == locals.now
            d       == result.days_left
            diff    == Seconds(result.expiry_date) - Seconds(now.dt)
        IN /\ result.kind = "return"
           /\ result.keys = {"expiry_date", "days_left", "last_changed", "message"}
           /\ ~result.days_inf
           /\ ~result.expiry_none
           /\ ValidDT(result.expiry_date)
           /\ Seconds(result.expiry_date) = Seconds(changed) + age
           /\ result.last_changed = changed
           /\ IF now.us = 0
              THEN d * 86400 <= diff /\ diff < (d + 1) * 86400
              ELSE d * 86400 < diff /\ diff <= (d + 1) * 86400
           /\ (diff < 0 \/ (diff = 0 /\ now.us > 0)) => d < 0
           /\ ( /\ dirEntry.changed.value = <<50, 48, 50, 51, 48, 49, 48, 49, 48, 48, 48, 48, 48, 48, 90>>
                /\ dirPolicy.value = <<55, 55, 55, 54, 48, 48, 48>>
                /\ now = [dt |-> DT(2023, 4, 15, 0, 0, 0), us |-> 0] )
              => result.expiry_date = DT(2023, 4, 1, 0, 0, 0) /\ d = 0 - 14

\* the scenario: an expiry fourteen days in the past
C10_Witness ==
    /\ PositiveMaxAgeCall
    /\ dirEntry.changed.value = <<50, 48, 50, 51, 48, 49, 48, 49, 48, 48, 48, 48, 48, 48, 90>>
    /\ dirPolicy.value = <<55, 55, 55, 54, 48, 48, 48>>
    /\ locals.now = [dt |-> DT(2023, 4, 15, 0, 0, 0), us |-> 0]
    /\ result.days_left = 0 - 14

\* C8: a connection of the client constructed with a CA certificate is always
\* created while the certificate requirement in force is DEMAND with that
\* client's CA file, whatever the other caller does meanwhile.
C8_VerifiedConnectionUnderDemand ==
    \A t \in Threads :
        (ThreadClient(t).ca_cert_file # "" /\ threads[t].conn.state = "open") =>
            /\ threads[t].conn.require_cert = "DEMAND"
            /\ threads[t].conn.cacertfile = ThreadClient(t).ca_cert_file


\* get_password_expiry_info returned or raised after its administrative bind
\* succeeded and the search for the user's entry was answered
ExpiryUserSearched ==
    /\ pc = "done"
    /\ call.op = "get_password_expiry_info"
    /\ Len(trace) >= 3
    /\ trace[2] = Ev("simple_bind_s", "ok")
    /\ trace[3] = EvSearch(client.base_dn, "SUBTREE", "ok")

UserNotFoundMsg == Msg("User '{username_to_query}' not found.", call.username, "", <<>>)

ChangedTimeMissingMsg ==
    Msg("Could not retrieve password last changed time. ppolicy overlay may not be active.", "", "", <<>>)

NoPolicyMsg == Msg("User is not subject to any password policy.", "", "", <<>>)

MaxAgeMissingMsg == Msg("Could not retrieve pwdMaxAge from the password policy.", "", "", <<>>)

\* C11: after a successful administrative bind, (a) no entry, or an entry
\* without pwdChangedTime, gives a descriptive message result and no second
\* search; (b) an entry with pwdChangedTime and without pwdPolicySubentry gives
\* the "not subject to any password policy" result and no second search; (c) a
\* second search is issued only when both attributes are present, with scope
\* BASE on the policy DN the entry names, and a policy entry without pwdMaxAge
\* gives a descriptive message result, not an exception.
C11_ExpiryLookupSteps ==
    ExpiryUserSearched =>
        LET found == UserSearchResult(call.username)
            searches == Cardinality(Events("search_s"))
        IN /\ found = <<>> =>
                  result = ReturnMessage(UserNotFoundMsg) /\ searches = 1
           /\ (found # <<>> /\ ~found[1].changed.present) =>
                  result = ReturnMessage(ChangedTimeMissingMsg) /\ searches = 1
           /\ (found # <<>> /\ found[1].changed.present /\ ~found[1].subentry.present) =>
                  result = ReturnMessage(NoPolicyMsg) /\ searches = 1
           /\ searches <= 2
           /\ searches = 2 =>
                  /\ found # <<>>
                  /\ found[1].changed.present
                  /\ found[1].subentry.present
                  /\ trace[4].base = found[1].subentry.value
                  /\ trace[4].scope = "BASE"
                  /\ (trace[4].res = "ok" /\ ~dirPolicy.present) =>
                         result = ReturnMessage(MaxAgeMissingMsg)


\* the six rules applied one after the other, each only when those before it
\* passed: the verdict of the first rule that fails, in the order length,
\* character classes, sequential run, keyboard adjacency, repeats, entropy
ShortCircuitVerdict(password) ==
    IF ~password_length_valid(password).passed
    THEN Verdict(FALSE, password_length_valid(password).reason)
    ELSE IF ~password_has_min_types(password).passed
    THEN Verdict(FALSE, password_has_min_types(password).reason)
    ELSE IF ~contains_sequential_chars(password).passed
    THEN Verdict(FALSE, contains_sequential_chars(password).reason)
    ELSE IF ~contains_sequential_keyboard(password).passed
    THEN Verdict(FALSE, contains_sequential_keyboard(password).reason)
    ELSE IF ~contains_repeated_chars(password).passed
    THEN Verdict(FALSE, contains_repeated_chars(password).reason)
    ELSE LET e == calculate_entropy(password, HasLower(password), HasUpper(password),
                                    HasDigit(password), HasSpecial(password))
         IN IF ~e.passed THEN Verdict(FALSE, e.reason)
            ELSE Verdict(TRUE, Msg("Password is strong and meets all complexity requirements.",
                                   "", "", <<>>))

\* C12: for every candidate, check_password_complexity_with_reason, which
\* evaluates all six rules before it looks at any verdict, returns what
\* short-circuiting at the first failing rule in the fixed order returns, and
\* the success verdict only when all six rules pass.
C12_FirstFailingRule ==
    pc = "engine_done" =>
        /\ result = ReturnTuple(ShortCircuitVerdict(call.new_password).passed,
                                ShortCircuitVerdict(call.new_password).reason)
        /\ result.ok <=> \A k \in 1..6 : complexity_checks(call.new_password)[k].passed

\* "hxkqvmzpbcde" is too short for nothing but fails the character-class rule and
\* the sequential-run rule: the verdict is that of the character-class rule
C12_Witness ==
    /\ pc = "engine_done"
    /\ call.new_password = PwLowerShort \o <<99, 100, 101>>
    /\ ~contains_sequential_chars(call.new_password).passed
    /\ result = ReturnTuple(FALSE, password_has_min_types(call.new_password).reason)


\* the username a running call hands to _get_user_dn
ResolvedUsername ==
    IF call.op \in {"authenticate", "change_password"} THEN call.username
    ELSE IF call.op = "get_user_info" THEN Or(call.admin_user, call.username)
    ELSE call.admin_user

\* C13: _get_user_dn rejects the empty username with InvalidInput, so a call
\* that resolves an empty username raises it and never reaches a bind; every
\* other username resolves to cn=admin under the base, to the service account
\* under ou=service, or to uid=<username> under ou=people.
C13_EmptyUsernameRejected ==
    /\ \A u \in Usernames \ {""} :
          get_user_dn(u, client.base_dn) =
              IF u = "admin" THEN DN("cn", "admin", "", client.base_dn)
              ELSE IF u = "xops" THEN DN("uid", "xops", "service", client.base_dn)
              ELSE DN("uid", u, "people", client.base_dn)
    /\ (call.op \in {"authenticate", "change_password", "get_user_info", "get_password_expiry_info"}
            /\ ResolvedUsername = "") =>
           /\ Events("simple_bind_s") = {}
           /\ pc = "done"
           /\ result = Raise("InvalidInput")


\* C14: in authenticate, change_password and get_password_expiry_info the
\* connection goes Created -> SessionOpen -> Bound -> Queried or Mutated ->
\* Closed: the first thing done is ldap.initialize, a search or a
\* password-modify comes only after a bind that succeeded, nothing comes after
\* the unbind, and a call that obtained a connection has closed it when it
\* returns or raises, in whichever state the failure happened.
C14_ConnectionLifecycle ==
    call.op \in {"authenticate", "change_password", "get_password_expiry_info"} =>
        /\ \A i \in 1..Len(trace) : (trace[i].op = "initialize") <=> (i = 1)
        /\ \A i \in 1..Len(trace) :
              trace[i].op \in {"search_s", "passwd_s"} =>
                  \E j \in 1..(i - 1) : trace[j] = Ev("simple_bind_s", "ok")
        /\ \A i \in 1..Len(trace) : trace[i].op = "unbind_s" => i = Len(trace)
        /\ conn = "bound" => Has("simple_bind_s", "ok") /\ Events("unbind_s") = {}
        /\ conn = "open" => Obtained /\ ~Has("simple_bind_s", "ok") /\ Events("unbind_s") = {}
        /\ conn = "closed" => Obtained /\ trace[Len(trace)].op = "unbind_s"
        /\ conn = "none" => ~Obtained
        /\ (pc = "done" /\ Obtained) => conn = "closed"

\* a change_password whose password-modify met a server that went down, closed
C14_Witness ==
    /\ pc = "done"
    /\ call.op = "change_password"
    /\ trace = << Ev("initialize", "ok"), Ev("simple_bind_s", "ok"),
                  Ev("check_password_complexity_with_reason", "passed"),
                  Ev("passwd_s", "SERVER_DOWN"), Ev("unbind_s", "ok") >>
    /\ conn = "closed"


IsLetter(c) == IsLower(c) \/ IsUpper(c)

\* the three characters from position i on are all letters or all digits and,
\* case folded, go up by one code point each, or down by one each
SequentialWindowAt(password, i) ==
    LET a == ToLower(password[i])
        b == ToLower(password[i + 1])
        c == ToLower(password[i + 2])
    IN /\ \/ IsLetter(password[i]) /\ IsLetter(password[i + 1]) /\ IsLetter(password[i + 2])
          \/ IsDigit(password[i]) /\ IsDigit(password[i + 1]) /\ IsDigit(password[i + 2])
       /\ \/ b - a = 1 /\ c - b = 1
          \/ a - b = 1 /\ b - c = 1

SequentialWindows(password) == {i \in 1..(Len(password) - 2) : SequentialWindowAt(password, i)}

\* the candidate passes the length rule and the character-class rule
PassesLengthAndClasses(password) ==
    /\ Len(password) >= 12
    /\ Len(password) <= 32
    /\ Cardinality({k \in 1..4 :
           \E i \in 1..Len(password) :
               \/ k = 1 /\ IsLower(password[i])
               \/ k = 2 /\ IsUpper(password[i])
               \/ k = 3 /\ IsDigit(password[i])
               \/ k = 4 /\ ~IsAlnum(password[i])}) >= 3

SequentialRunText == "Sequential character pattern detected: {substr}"

\* a candidate that passes length and classes and has such a window is rejected
\* with a sequential-run reason
RunRejected ==
    (pc = "engine_done" /\ PassesLengthAndClasses(call.new_password)
         /\ SequentialWindows(call.new_password) # {}) =>
        /\ result.ok = FALSE
        /\ result.msg.text = SequentialRunText

\* C15 as stated: "Abcdef123456!" passes the length and the character-class
\* rule and is rejected with the sequential-run verdict reported on the digit
\* run "123" or "345"; and every candidate that passes length and classes and
\* has a window of 3 letters or 3 digits going up or down by one is rejected
\* with a sequential-run reason.
C15_ReportedOnDigitRun ==
    /\ (pc = "engine_done" /\ call.new_password = PwSequential) =>
           /\ PassesLengthAndClasses(PwSequential)
           /\ result.ok = FALSE
           /\ result.msg.text = SequentialRunText
           /\ result.msg.num \in {<<49, 50, 51>>, <<51, 52, 53>>}
    /\ RunRejected

\* C15: "Abcdef123456!" passes the length and the character-class rule and is
\* rejected with the sequential-run verdict reported on "abc", the first window
\* of the lower-cased password that is a run; and every candidate that passes
\* length and classes and has a window of 3 letters or 3 digits going up or
\* down by one is rejected with a sequential-run reason.
C15_ReportedOnFirstRun ==
    /\ (pc = "engine_done" /\ call.new_password = PwSequential) =>
           /\ PassesLengthAndClasses(PwSequential)
           /\ result.ok = FALSE
           /\ result.msg.text = SequentialRunText
           /\ result.msg.num = <<97, 98, 99>>
    /\ RunRejected

\* the verdict on "Abcdef123456!"
C15_Witness ==
    /\ pc = "engine_done"
    /\ call.new_password = PwSequential
    /\ result = ReturnTuple(FALSE, Msg(SequentialRunText, "", "", <<97, 98, 99>>))

====
